---- MODULE Spec2Model ----
(***************************************************************************)
(* The view-once forwarder of src/server.js as a state machine.            *)
(*                                                                         *)
(* The module body of server.js runs once (Startup); afterwards the        *)
(* transport emits "message" events.  Each event starts one invocation of  *)
(* the async handler of lines 82-125, which runs synchronously up to its   *)
(* first await (msg.downloadMedia(), line 95), is resumed when the         *)
(* download settles, runs up to its second await (client.sendMessage,      *)
(* line 116) and is resumed once more when the send settles.  Invocations  *)
(* of different events interleave at those two suspension points.          *)
(*                                                                         *)
(* JavaScript values are encoded as strings: "true", "false", "undefined", *)
(* "" (the empty string) and ordinary non-empty strings.                   *)
(***************************************************************************)
EXTENDS Integers, Sequences, FiniteSets, TLC

VARIABLES
    OWNER_NUMBER,   \* process.env.OWNER_NUMBER as read at line 13
    proc,           \* "loading" (module body not run yet), "running", "exited"
    exitCode,       \* <<>> while the process lives, <<n>> after process.exit(n)
    client,         \* the transport client: created?, listeners, initialize() and
                    \* destroy() calls and how they settled
    events,         \* one record per handler invocation, in arrival order
    downloadCalls,  \* msg.downloadMedia() calls made, in call order
    sendCalls,      \* client.sendMessage() calls made, in call order
    console,        \* console.log / console.error lines, in output order
    escaped         \* invocations whose promise rejected (exception left the handler);
                    \* 0 stands for a signal handler

vars == <<OWNER_NUMBER, proc, exitCode, client, events, downloadCalls, sendCalls,
          console, escaped>>

(***************************************************************************)
(* Bounds                                                                  *)
(***************************************************************************)
\* Number of "message" events the transport emits in one run.
MaxEvents == 2

\* Number of termination signals the process receives in one run.
MaxSignals == 1

(***************************************************************************)
(* JavaScript values                                                       *)
(***************************************************************************)
Undefined == "undefined"

\* ToBoolean, as applied by !x, x || y and if (x).
Truthy(v) == v \notin {"false", "undefined", "null", ""}

\* a || b : the first operand when it is truthy, otherwise the second.
Or(a, b) == IF Truthy(a) THEN a ELSE b

\* obj?.field on an object that may be absent.
OptGet(obj, field) == IF obj.present THEN obj[field] ELSE Undefined

(***************************************************************************)
(* Inbound messages                                                        *)
(***************************************************************************)
Flags == {"true", "false", Undefined}

\* msg._data: absent, or a raw object carrying the two fallback attributes.
AbsentData == [present |-> FALSE, isViewOnce |-> Undefined, viewOnce |-> Undefined]

RawData == {AbsentData} \cup [present : {TRUE}, isViewOnce : Flags, viewOnce : Flags]

\* Who sent the message and its identifier.
Identities == {[from |-> "alice@c.us", id |-> "3EB0A1"],
               [from |-> "bob@c.us", id |-> "3EB0B2"]}

Types == {"chat", "image", "video", "sticker", "ptt"}

Bodies == {"", "sent a photo", "View Once photo"}

Message(ident, hasMedia, isVO, data, type, body) ==
    [from |-> ident.from, id |-> ident.id, hasMedia |-> hasMedia,
     isViewOnce |-> isVO, _data |-> data, type |-> type, body |-> body]

\* Every message the transport can hand to the handler.  A text message
\* ("chat") has no attachment; every other type may or may not report one.
InboundMessage ==
    {m \in {Message(ident, hm, vo, d, t, b) :
                ident \in Identities, hm \in {"true", "false"}, vo \in Flags,
                d \in RawData, t \in Types, b \in Bodies} :
        m.type = "chat" => m.hasMedia = "false"}

\* The messages used when several invocations interleave: the structured
\* flag alone decides, the raw data is absent.
Messages ==
    {m \in InboundMessage :
        /\ m._data = AbsentData
        /\ m.type = "image"
        /\ m.body = ""}

(***************************************************************************)
(* Media payloads: what msg.downloadMedia() resolves to                    *)
(***************************************************************************)
Unassigned == [kind |-> "unassigned", mimetype |-> Undefined, data |-> Undefined,
               filename |-> Undefined]

NullMedia == [kind |-> "null", mimetype |-> Undefined, data |-> Undefined,
              filename |-> Undefined]

MediaObject(mimetype, data, filename) ==
    [kind |-> "object", mimetype |-> mimetype, data |-> data, filename |-> filename]

DownloadResults ==
    {NullMedia,
     MediaObject("image/jpeg", Undefined, Undefined),
     MediaObject("image/jpeg", "", Undefined),
     MediaObject("image/jpeg", "/9j/4AAQ", Undefined),
     MediaObject("video/mp4", "AAAAIGZ0", "clip.mp4")}

\* media?.data
MediaData(media) == IF media.kind = "object" THEN media.data ELSE Undefined

\* new Date().toLocaleString()
Timestamps == {"11/3/2026, 8:00:00 PM"}

(***************************************************************************)
(* The handler of client.on("message"), lines 82-125                       *)
(***************************************************************************)
\* Variant of HasMedia: the media-presence guard is missing.
HasMediaUnchecked(msg) == TRUE

\* Line 84: if (!msg.hasMedia) return;
HasMedia(msg) == Truthy(msg.hasMedia)

\* Variant of isViewOnce: a message body also counts as a signal.
isViewOnceOrBody(msg) ==
    Or(Or(Or(msg.isViewOnce, OptGet(msg._data, "isViewOnce")),
          OptGet(msg._data, "viewOnce")),
       msg.body)

\* Variant of isViewOnce: the second raw-data fallback is not consulted.
isViewOnceNoFallback(msg) == Or(msg.isViewOnce, OptGet(msg._data, "isViewOnce"))

\* Lines 86-89: the three signals joined with ||.
isViewOnce(msg) ==
    Or(Or(msg.isViewOnce, OptGet(msg._data, "isViewOnce")),
       OptGet(msg._data, "viewOnce"))

\* Variant of Qualifies: a message whose id was seen before is skipped.
QualifiesUnseen(msg) ==
    /\ HasMedia(msg)
    /\ Truthy(isViewOnce(msg))
    /\ \A e \in DOMAIN events : events[e].msg.id # msg.id

\* Lines 84 and 91 together: the invocation goes on to the download.
Qualifies(msg) == HasMedia(msg) /\ Truthy(isViewOnce(msg))

\* Variant of PayloadEmpty: only a null result counts as empty.
PayloadEmptyNullOnly(media) == media.kind = "null"

\* Line 97: if (!media?.data)
PayloadEmpty(media) == ~Truthy(MediaData(media))

\* Lines 102-106: new MessageMedia(mimetype, data, filename || "viewonce")
ForwardedMedia(media) ==
    [mimetype |-> media.mimetype, data |-> media.data,
     filename |-> Or(media.filename, "viewonce")]

\* Variant of Caption: the sender is read from the message that arrived last,
\* as if the handler kept the current message in a module-level variable.
CaptionLastSender(msg, timestamp) ==
    <<"View Once Media", "From: ", events[Len(events)].msg.from, "Time: ", timestamp>>

\* Variant of Caption: the sender is left out.
CaptionNoSender(msg, timestamp) == <<"View Once Media", "Time: ", timestamp>>

\* Lines 110-114: the caption template, as its pieces.
Caption(msg, timestamp) ==
    <<"View Once Media", "From: ", msg.from, "Time: ", timestamp>>

\* Variant of Destination: the media goes back to the chat it came from.
DestinationSender(msg) == msg.from

\* Line 116: the first argument of client.sendMessage.
Destination(msg) == OWNER_NUMBER

\* Variants of TryCovers: the try block ends before the send, or starts
\* after the download.
TryCoversDownloadOnly == {"download"}

TryCoversSendOnly == {"send"}

\* Lines 83 and 122: the awaits the try block encloses.
TryCovers == {"download", "send"}

Line(stream, text, ev) == [stream |-> stream, text |-> text, ev |-> ev]

\* One handler invocation: its argument, where it stands ("ignored",
\* "downloading", "sending", "delivered", "failed" after a logged failure,
\* "rejected" when an exception left it), its local `media`, and which of its
\* awaited transport calls threw.
Invocation(msg, pc) == [msg |-> msg, pc |-> pc, media |-> Unassigned, threw |-> "none"]

(***************************************************************************)
(* Startup: the module body, lines 13-55, 61-125, 147-153                  *)
(***************************************************************************)
\* initialize: "none", "pending", "resolved" or "rejected"; destroyPending: the
\* client.destroy() calls that have not settled; destroyed: one has completed.
NoClient == [created |-> FALSE, listeners |-> {}, initializeCalled |-> FALSE,
             initializeCalls |-> 0, initialize |-> "none", destroyPending |-> 0,
             destroyed |-> FALSE]

\* Variant of OwnerMissing: only an unset variable counts as missing.
OwnerMissingUnsetOnly(owner) == owner = Undefined

\* Line 15: if (!OWNER_NUMBER)
OwnerMissing(owner) == ~Truthy(owner)

Startup ==
    /\ proc = "loading"
    /\ IF OwnerMissing(OWNER_NUMBER)
       THEN /\ console' = Append(console, Line("error", "FATAL: OWNER_NUMBER is not set", 0))
            /\ proc' = "exited"
            /\ exitCode' = <<1>>
            /\ UNCHANGED client
       ELSE /\ client' = [created |-> TRUE,
                          listeners |-> {"qr", "ready", "auth_failure", "disconnected",
                                         "message"},
                          initializeCalled |-> TRUE,
                          initializeCalls |-> 1,
                          initialize |-> "pending",
                          destroyPending |-> 0,
                          destroyed |-> FALSE]
            /\ proc' = "running"
            /\ UNCHANGED <<console, exitCode>>
    /\ UNCHANGED <<OWNER_NUMBER, events, downloadCalls, sendCalls, escaped>>

(***************************************************************************)
(* A "message" event: the handler up to its first await                    *)
(***************************************************************************)
MessageEvent(msg) ==
    /\ proc = "running"
    /\ "message" \in client.listeners
    /\ Len(events) < MaxEvents
    /\ LET ev == Len(events) + 1 IN
       IF Qualifies(msg)
       THEN /\ events' = Append(events, Invocation(msg, "downloading"))
            /\ console' = Append(console,
                                 Line("log", "View Once media detected from:", ev))
            /\ downloadCalls' = Append(downloadCalls, [ev |-> ev, id |-> msg.id])
       ELSE /\ events' = Append(events, Invocation(msg, "ignored"))
            /\ UNCHANGED <<console, downloadCalls>>
    /\ UNCHANGED <<OWNER_NUMBER, proc, exitCode, client, sendCalls, escaped>>

(***************************************************************************)
(* msg.downloadMedia() resolves: lines 95-118 up to the second await       *)
(***************************************************************************)
DownloadResolve(ev, media, timestamp) ==
    /\ proc = "running"
    /\ ev \in DOMAIN events
    /\ events[ev].pc = "downloading"
    /\ IF PayloadEmpty(media)
       THEN /\ events' = [events EXCEPT ![ev].pc = "failed", ![ev].media = media]
            /\ console' = Append(console, Line("error", "Failed to download media.", ev))
            /\ UNCHANGED sendCalls
       ELSE /\ events' = [events EXCEPT ![ev].pc = "sending", ![ev].media = media]
            /\ sendCalls' = Append(sendCalls,
                                   [ev |-> ev,
                                    to |-> Destination(events[ev].msg),
                                    media |-> ForwardedMedia(media),
                                    caption |-> Caption(events[ev].msg, timestamp)])
            /\ UNCHANGED console
    /\ UNCHANGED <<OWNER_NUMBER, proc, exitCode, client, downloadCalls, escaped>>

\* Variant of CatchOutcome: the catch block starts the forward over.
CatchOutcomeRetry == "downloading"

\* Lines 122-124: the catch block logs and the handler ends there.
CatchOutcome == "failed"

\* An await that throws: caught at line 122 when the try block encloses it,
\* otherwise the invocation's promise rejects.
Throw(ev, site) ==
    IF site \in TryCovers
    THEN /\ events' = [events EXCEPT ![ev].pc = CatchOutcome, ![ev].threw = site]
         /\ console' = Append(console, Line("error", "Forwarding error:", ev))
         /\ UNCHANGED escaped
    ELSE /\ events' = [events EXCEPT ![ev].pc = "rejected", ![ev].threw = site]
         /\ escaped' = escaped \cup {ev}
         /\ UNCHANGED console

DownloadReject(ev) ==
    /\ proc = "running"
    /\ ev \in DOMAIN events
    /\ events[ev].pc = "downloading"
    /\ Throw(ev, "download")
    /\ UNCHANGED <<OWNER_NUMBER, proc, exitCode, client, downloadCalls, sendCalls>>

(***************************************************************************)
(* client.sendMessage() settles: lines 116-124                             *)
(***************************************************************************)
SendResolve(ev) ==
    /\ proc = "running"
    /\ ev \in DOMAIN events
    /\ events[ev].pc = "sending"
    /\ events' = [events EXCEPT ![ev].pc = "delivered"]
    /\ console' = Append(console, Line("log", "Forwarded successfully.", ev))
    /\ UNCHANGED <<OWNER_NUMBER, proc, exitCode, client, downloadCalls, sendCalls,
                   escaped>>

SendReject(ev) ==
    /\ proc = "running"
    /\ ev \in DOMAIN events
    /\ events[ev].pc = "sending"
    /\ Throw(ev, "send")
    /\ UNCHANGED <<OWNER_NUMBER, proc, exitCode, client, downloadCalls, sendCalls>>

(***************************************************************************)
(* Specifications                                                          *)
(***************************************************************************)
\* process.env.OWNER_NUMBER: unset, set to the empty string, or set.
OwnerValues == {Undefined, "", "owner@c.us"}

Init ==
    /\ OWNER_NUMBER \in OwnerValues
    /\ proc = "loading"
    /\ exitCode = <<>>
    /\ client = NoClient
    /\ events = <<>>
    /\ downloadCalls = <<>>
    /\ sendCalls = <<>>
    /\ console = <<>>
    /\ escaped = {}

\* Variant of Settle: a single worker, an invocation is resumed only when
\* every earlier one has finished.
SettleInOrder ==
    \E ev \in 1..MaxEvents :
        /\ \A e \in DOMAIN events :
               e < ev => events[e].pc \notin {"downloading", "sending"}
        /\ \/ \E media \in DownloadResults, ts \in Timestamps :
                  DownloadResolve(ev, media, ts)
           \/ DownloadReject(ev)
           \/ SendResolve(ev)
           \/ SendReject(ev)

Settle ==
    \E ev \in 1..MaxEvents :
        \/ \E media \in DownloadResults, ts \in Timestamps : DownloadResolve(ev, media, ts)
        \/ DownloadReject(ev)
        \/ SendResolve(ev)
        \/ SendReject(ev)

\* Several events, their invocations interleaving.
Next ==
    \/ Startup
    \/ \E msg \in Messages : MessageEvent(msg)
    \/ Settle

Spec == Init /\ [][Next]_vars

\* One event, drawn from every message the transport can produce.
OnlyMessageEvent(msg) == events = <<>> /\ MessageEvent(msg)

NextSingle ==
    \/ Startup
    \/ \E msg \in InboundMessage : OnlyMessageEvent(msg)
    \/ Settle

SpecSingle == Init /\ [][NextSingle]_vars

\* The media messages of one sender whose structured flag is true or false.
MediaMessages ==
    {m \in Messages :
        /\ m.hasMedia = "true"
        /\ m.isViewOnce # Undefined
        /\ m.from = "alice@c.us"}

(***************************************************************************)
(* Process lifecycle: client.initialize(), transport events, signals       *)
(***************************************************************************)
Logged(line) == \E k \in DOMAIN console : console[k] = line

\* Lines 147-153: await client.initialize() returns.
InitializeResolve ==
    /\ proc = "running"
    /\ client.initialize = "pending"
    /\ client' = [client EXCEPT !.initialize = "resolved"]
    /\ UNCHANGED <<OWNER_NUMBER, proc, exitCode, events, downloadCalls, sendCalls,
                   console, escaped>>

\* Variant of InitializeReject: the catch block calls client.initialize() again.
InitializeRejectRetry ==
    /\ proc = "running"
    /\ client.initialize = "pending"
    /\ ~Logged(Line("error", "Initialization failed:", 0))
    /\ console' = Append(console, Line("error", "Initialization failed:", 0))
    /\ client' = [client EXCEPT !.initializeCalls = @ + 1]
    /\ UNCHANGED <<OWNER_NUMBER, proc, exitCode, events, downloadCalls, sendCalls,
                   escaped>>

\* Lines 150-152: await client.initialize() throws; the catch block logs.
InitializeReject ==
    /\ proc = "running"
    /\ client.initialize = "pending"
    /\ client' = [client EXCEPT !.initialize = "rejected"]
    /\ console' = Append(console, Line("error", "Initialization failed:", 0))
    /\ UNCHANGED <<OWNER_NUMBER, proc, exitCode, events, downloadCalls, sendCalls,
                   escaped>>

\* Variant of AuthFailure: the handler gives up and ends the process.
AuthFailureExits ==
    /\ proc = "running"
    /\ "auth_failure" \in client.listeners
    /\ ~Logged(Line("error", "Authentication failed:", 0))
    /\ console' = Append(console, Line("error", "Authentication failed:", 0))
    /\ proc' = "exited"
    /\ exitCode' = <<1>>
    /\ UNCHANGED <<OWNER_NUMBER, client, events, downloadCalls, sendCalls, escaped>>

\* Lines 71-73: the "auth_failure" event (emitted at most once here).
AuthFailure ==
    /\ proc = "running"
    /\ "auth_failure" \in client.listeners
    /\ ~Logged(Line("error", "Authentication failed:", 0))
    /\ console' = Append(console, Line("error", "Authentication failed:", 0))
    /\ UNCHANGED <<OWNER_NUMBER, proc, exitCode, client, events, downloadCalls,
                   sendCalls, escaped>>

\* Lines 75-77: the "disconnected" event (emitted at most once here).
Disconnected ==
    /\ proc = "running"
    /\ "disconnected" \in client.listeners
    /\ ~Logged(Line("error", "Client disconnected:", 0))
    /\ console' = Append(console, Line("error", "Client disconnected:", 0))
    /\ UNCHANGED <<OWNER_NUMBER, proc, exitCode, client, events, downloadCalls,
                   sendCalls, escaped>>

Signals == {"SIGTERM", "SIGINT"}

\* Lines 175 and 181: what the signal handlers print.
SignalLine(sig) == Line("log", sig, 0)

SignalsReceived ==
    Cardinality({k \in DOMAIN console : \E sig \in Signals : console[k] = SignalLine(sig)})

\* Variant of Signal: client.destroy() is not awaited.
SignalNoAwait(sig) ==
    /\ proc = "running"
    /\ SignalsReceived < MaxSignals
    /\ console' = Append(console, SignalLine(sig))
    /\ client' = [client EXCEPT !.destroyPending = @ + 1]
    /\ proc' = "exited"
    /\ exitCode' = <<0>>
    /\ UNCHANGED <<OWNER_NUMBER, events, downloadCalls, sendCalls, escaped>>

\* Lines 174-176 and 180-182: a signal handler up to await client.destroy().
Signal(sig) ==
    /\ proc = "running"
    /\ SignalsReceived < MaxSignals
    /\ console' = Append(console, SignalLine(sig))
    /\ client' = [client EXCEPT !.destroyPending = @ + 1]
    /\ UNCHANGED <<OWNER_NUMBER, proc, exitCode, events, downloadCalls, sendCalls,
                   escaped>>

\* Variant of DestroyResolve: the exit waits for the forwards in flight.
DestroyResolveAfterForwards ==
    /\ proc = "running"
    /\ client.destroyPending > 0
    /\ \A ev \in DOMAIN events : events[ev].pc \notin {"downloading", "sending"}
    /\ client' = [client EXCEPT !.destroyPending = @ - 1, !.destroyed = TRUE]
    /\ proc' = "exited"
    /\ exitCode' = <<0>>
    /\ UNCHANGED <<OWNER_NUMBER, events, downloadCalls, sendCalls, console, escaped>>

\* Lines 176-177 and 182-183: client.destroy() returns, then process.exit(0).
DestroyResolve ==
    /\ proc = "running"
    /\ client.destroyPending > 0
    /\ client' = [client EXCEPT !.destroyPending = @ - 1, !.destroyed = TRUE]
    /\ proc' = "exited"
    /\ exitCode' = <<0>>
    /\ UNCHANGED <<OWNER_NUMBER, events, downloadCalls, sendCalls, console, escaped>>

\* Lines 176 and 182: client.destroy() throws; the signal handler has no
\* catch, so its promise rejects and process.exit(0) is not reached.
DestroyReject ==
    /\ proc = "running"
    /\ client.destroyPending > 0
    /\ client' = [client EXCEPT !.destroyPending = @ - 1]
    /\ escaped' = escaped \cup {0}
    /\ UNCHANGED <<OWNER_NUMBER, proc, exitCode, events, downloadCalls, sendCalls,
                   console>>

\* A rejected promise nobody handles ends the process with status 1 (the
\* default of every Node.js release that has the global fetch of line 162).
UnhandledRejection ==
    /\ proc = "running"
    /\ escaped # {}
    /\ proc' = "exited"
    /\ exitCode' = <<1>>
    /\ UNCHANGED <<OWNER_NUMBER, client, events, downloadCalls, sendCalls, console,
                   escaped>>

\* The whole process with one message event.
NextLifecycle ==
    \/ Startup
    \/ \E msg \in MediaMessages : OnlyMessageEvent(msg)
    \/ Settle
    \/ InitializeResolve
    \/ InitializeReject
    \/ AuthFailure
    \/ Disconnected
    \/ \E sig \in Signals : Signal(sig)
    \/ DestroyResolve
    \/ DestroyReject
    \/ UnhandledRejection

SpecLifecycle == Init /\ [][NextLifecycle]_vars

(***************************************************************************)
(* The heuristic forwarding variant, src/unnamed/part_000 lines 136-250    *)
(***************************************************************************)
\* The strings the variant inspects, as their characters.
Chars(str) ==
    CASE str = "" -> <<>>
      [] str = "sent a photo" -> <<"s", "e", "n", "t", " ", "a", " ", "p", "h", "o", "t", "o">>
      [] str = "View Once photo" -> <<"V", "i", "e", "w", " ", "O", "n", "c", "e", " ", "p", "h", "o", "t", "o">>
      [] str = "3EB0A1" -> <<"3", "E", "B", "0", "A", "1">>
      [] str = "3EB0B2" -> <<"3", "E", "B", "0", "B", "2">>
      [] str = "viewonce_3EB0C3" -> <<"v", "i", "e", "w", "o", "n", "c", "e", "_", "3", "E", "B", "0", "C", "3">>
      [] str = "view once" -> <<"v", "i", "e", "w", " ", "o", "n", "c", "e">>
      [] str = "viewonce" -> <<"v", "i", "e", "w", "o", "n", "c", "e">>

UpperCase == <<"A", "B", "C", "D", "E", "F", "G", "H", "I", "J", "K", "L", "M", "N", "O", "P", "Q", "R", "S", "T", "U", "V", "W", "X", "Y", "Z">>

LowerCase == <<"a", "b", "c", "d", "e", "f", "g", "h", "i", "j", "k", "l", "m", "n", "o", "p", "q", "r", "s", "t", "u", "v", "w", "x", "y", "z">>

\* String.prototype.toLowerCase
ToLowerCase(chars) ==
    [i \in DOMAIN chars |->
        IF \E k \in DOMAIN UpperCase : UpperCase[k] = chars[i]
        THEN LowerCase[CHOOSE k \in DOMAIN UpperCase : UpperCase[k] = chars[i]]
        ELSE chars[i]]

\* String.prototype.includes
Includes(chars, needle) ==
    \E start \in 0..(Len(chars) - Len(needle)) :
        SubSeq(chars, start + 1, start + Len(needle)) = needle

\* The messages of the variant: image or text, a body that may be absent, an
\* identifier that may name "viewonce" or be absent (id |-> Undefined stands
\* for msg.id undefined).
HeuristicIdentities ==
    {[from |-> "alice@c.us", id |-> "3EB0A1"],
     [from |-> "carol@c.us", id |-> "viewonce_3EB0C3"],
     [from |-> "dave@c.us", id |-> Undefined]}

HeuristicMessages ==
    {Message(ident, "true", Undefined, AbsentData, t, b) :
        ident \in HeuristicIdentities, t \in {"image", "chat"},
        b \in {"", "View Once photo", Undefined}}

\* Line 185: if (msg.type === 'image' || msg.type === 'video')
IsImageOrVideo(msg) == msg.type \in {"image", "video"}

\* Line 187, first operand: msg.body.toLowerCase().includes('view once')
BodySaysViewOnce(msg) == Includes(ToLowerCase(Chars(msg.body)), Chars("view once"))

\* Line 187: a TypeError, from msg.body.toLowerCase() on an absent body or
\* from msg.id.id on an absent id when the body did not match.
HeuristicThrows(msg) ==
    \/ msg.body = Undefined
    \/ ~BodySaysViewOnce(msg) /\ msg.id = Undefined

\* Line 187: the value of isViewOnce when nothing is thrown.
HeuristicViewOnce(msg) ==
    \/ BodySaysViewOnce(msg)
    \/ Includes(Chars(msg.id), Chars("viewonce"))

\* Lines 147-181 and 231-234: the module body of the variant.
HeuristicStartup ==
    /\ proc = "loading"
    /\ IF OwnerMissing(OWNER_NUMBER)
       THEN /\ console' = Append(console, Line("error", "FATAL: OWNER_NUMBER is not set", 0))
            /\ proc' = "exited"
            /\ exitCode' = <<1>>
            /\ UNCHANGED client
       ELSE /\ client' = [NoClient EXCEPT
                              !.created = TRUE,
                              !.listeners = {"qr", "ready", "remote_session_saved",
                                             "message"},
                              !.initializeCalled = TRUE,
                              !.initializeCalls = 1,
                              !.initialize = "pending"]
            /\ proc' = "running"
            /\ UNCHANGED <<console, exitCode>>
    /\ UNCHANGED <<OWNER_NUMBER, events, downloadCalls, sendCalls, escaped>>

\* Lines 183-193: the handler up to await msg.downloadMedia().  Line 187 is
\* evaluated before the try block of line 189 is entered.
HeuristicMessageEvent(msg) ==
    /\ proc = "running"
    /\ "message" \in client.listeners
    /\ Len(events) < MaxEvents
    /\ LET ev == Len(events) + 1 IN
       IF ~IsImageOrVideo(msg)
       THEN /\ events' = Append(events, Invocation(msg, "ignored"))
            /\ UNCHANGED <<console, downloadCalls, escaped>>
       ELSE IF HeuristicThrows(msg)
       THEN /\ events' = Append(events, Invocation(msg, "rejected"))
            /\ escaped' = escaped \cup {ev}
            /\ UNCHANGED <<console, downloadCalls>>
       ELSE IF HeuristicViewOnce(msg)
       THEN /\ events' = Append(events, Invocation(msg, "downloading"))
            /\ console' = Append(console, Line("log", "View Once received. Forwarding...", ev))
            /\ downloadCalls' = Append(downloadCalls, [ev |-> ev, id |-> msg.id])
            /\ UNCHANGED escaped
       ELSE /\ events' = Append(events, Invocation(msg, "ignored"))
            /\ UNCHANGED <<console, downloadCalls, escaped>>
    /\ UNCHANGED <<OWNER_NUMBER, proc, exitCode, client, sendCalls>>

\* Lines 193-212: from the settled download to await client.sendMessage().
HeuristicDownloadResolve(ev, media, timestamp) ==
    /\ proc = "running"
    /\ ev \in DOMAIN events
    /\ events[ev].pc = "downloading"
    /\ IF media.kind = "null" \/ ~Truthy(media.data)
       THEN /\ events' = [events EXCEPT ![ev].pc = "failed", ![ev].media = media]
            /\ console' = Append(console,
                                 Line("error", "Failed to download media content.", ev))
            /\ UNCHANGED sendCalls
       ELSE /\ events' = [events EXCEPT ![ev].pc = "sending", ![ev].media = media]
            /\ sendCalls' = Append(sendCalls,
                                   [ev |-> ev,
                                    to |-> OWNER_NUMBER,
                                    media |-> [mimetype |-> media.mimetype,
                                               data |-> media.data,
                                               filename |-> media.filename],
                                    caption |-> <<"View Once Media", "From: ",
                                                  events[ev].msg.from, "Received: ",
                                                  timestamp>>])
            /\ UNCHANGED console
    /\ UNCHANGED <<OWNER_NUMBER, proc, exitCode, client, downloadCalls, escaped>>

\* Lines 216-218: an await inside the try block throws; the catch block logs.
HeuristicCatch(ev, site) ==
    /\ proc = "running"
    /\ ev \in DOMAIN events
    /\ events[ev].pc = (IF site = "download" THEN "downloading" ELSE "sending")
    /\ events' = [events EXCEPT ![ev].pc = "failed", ![ev].threw = site]
    /\ console' = Append(console, Line("error", "Failed to forward View Once media:", ev))
    /\ UNCHANGED <<OWNER_NUMBER, proc, exitCode, client, downloadCalls, sendCalls,
                   escaped>>

\* Lines 212-214: client.sendMessage() returns.
HeuristicSendResolve(ev) ==
    /\ proc = "running"
    /\ ev \in DOMAIN events
    /\ events[ev].pc = "sending"
    /\ events' = [events EXCEPT ![ev].pc = "delivered"]
    /\ console' = Append(console, Line("log", "Successfully forwarded View Once", ev))
    /\ UNCHANGED <<OWNER_NUMBER, proc, exitCode, client, downloadCalls, sendCalls,
                   escaped>>

HeuristicSettle ==
    \E ev \in 1..MaxEvents :
        \/ \E media \in DownloadResults, ts \in Timestamps :
               HeuristicDownloadResolve(ev, media, ts)
        \/ \E site \in {"download", "send"} : HeuristicCatch(ev, site)
        \/ HeuristicSendResolve(ev)

NextHeuristic ==
    \/ HeuristicStartup
    \/ \E msg \in HeuristicMessages : HeuristicMessageEvent(msg)
    \/ HeuristicSettle
    \/ UnhandledRejection

SpecHeuristic == Init /\ [][NextHeuristic]_vars

\* Several events again, each a message of MediaMessages: the runs in which
\* transport calls may fail to return.

NextHang ==
    \/ Startup
    \/ \E msg \in MediaMessages : MessageEvent(msg)
    \/ Settle

SpecHang == Init /\ [][NextHang]_vars

(***************************************************************************)
(* Properties                                                              *)
(***************************************************************************)
Range(seq) == {seq[k] : k \in DOMAIN seq}

\* The download and send calls made by invocation ev.
DownloadsFor(ev) == {k \in DOMAIN downloadCalls : downloadCalls[k].ev = ev}

SendsFor(ev) == {k \in DOMAIN sendCalls : sendCalls[k].ev = ev}

\* None of the three signals of the message is affirmative.
NoSignal(msg) ==
    /\ msg.isViewOnce \in {"false", Undefined}
    /\ \/ ~msg._data.present
       \/ /\ msg._data.isViewOnce \in {"false", Undefined}
          /\ msg._data.viewOnce \in {"false", Undefined}

\* The download of invocation ev has returned a payload with data in it.
GotPayload(ev) ==
    /\ events[ev].media.kind = "object"
    /\ events[ev].media.data \notin {Undefined, ""}

\* The download of invocation ev has returned nothing usable.
GotNothing(ev) ==
    \/ events[ev].media.kind = "null"
    \/ /\ events[ev].media.kind = "object"
       /\ events[ev].media.data \in {Undefined, ""}

\* Position in the console output of a line of invocation ev (0 when absent).
LinePos(stream, text, ev) ==
    IF \E k \in DOMAIN console : console[k] = Line(stream, text, ev)
    THEN CHOOSE k \in DOMAIN console : console[k] = Line(stream, text, ev)
    ELSE 0

\* Invocation ev stands where its own message and its own transport
\* responses put it, whatever happened to the other invocations.
ProcessedNormally(ev) ==
    LET inv == events[ev]
        wanted == inv.msg.hasMedia = "true" /\ ~NoSignal(inv.msg)
    IN  /\ ev \notin escaped
        /\ inv.pc \in {"ignored", "downloading", "sending", "delivered", "failed"}
        /\ (inv.pc = "ignored") <=> ~wanted
        /\ Cardinality(DownloadsFor(ev)) = (IF wanted THEN 1 ELSE 0)
        /\ Cardinality(SendsFor(ev)) = (IF GotPayload(ev) THEN 1 ELSE 0)
        /\ (inv.pc = "delivered") => GotPayload(ev) /\ inv.threw = "none"
        /\ (inv.pc = "sending") => GotPayload(ev) /\ inv.threw = "none"
        /\ (inv.pc = "failed") => GotNothing(ev) \/ inv.threw # "none"

\* C1: an invocation whose message has hasMedia false makes no downloadMedia
\* call and no sendMessage call, whatever its view-once flags say.
C1_NoMediaNoCalls ==
    \A ev \in DOMAIN events :
        events[ev].msg.hasMedia = "false" =>
            /\ DownloadsFor(ev) = {}
            /\ SendsFor(ev) = {}
            /\ events[ev].pc = "ignored"

\* A message without media whose three view-once flags are all true was ignored.
C1_Witness ==
    \E ev \in DOMAIN events :
        /\ events[ev].msg.hasMedia = "false"
        /\ events[ev].msg.isViewOnce = "true"
        /\ events[ev].msg._data.isViewOnce = "true"
        /\ events[ev].msg._data.viewOnce = "true"
        /\ events[ev].pc = "ignored"

\* C2: an invocation whose message carries media but no affirmative view-once
\* signal makes no download call and no delivery call, whatever its body says.
C2_NoSignalNoCalls ==
    \A ev \in DOMAIN events :
        (events[ev].msg.hasMedia = "true" /\ NoSignal(events[ev].msg)) =>
            /\ DownloadsFor(ev) = {}
            /\ SendsFor(ev) = {}
            /\ events[ev].pc = "ignored"

\* The video with body "sent a photo" and no flags at all was ignored.
C2_Witness ==
    \E ev \in DOMAIN events :
        /\ events[ev].msg.hasMedia = "true"
        /\ events[ev].msg.type = "video"
        /\ events[ev].msg.body = "sent a photo"
        /\ events[ev].msg.isViewOnce = Undefined
        /\ ~events[ev].msg._data.present
        /\ events[ev].pc = "ignored"

\* C3: an invocation whose message has media and msg.isViewOnce true calls
\* download exactly once; once that download has returned a non-empty payload
\* it has called sendMessage exactly once, with a caption holding msg.from.
C3_OneDownloadOneDelivery ==
    \A ev \in DOMAIN events :
        (events[ev].msg.hasMedia = "true" /\ events[ev].msg.isViewOnce = "true") =>
            /\ Cardinality(DownloadsFor(ev)) = 1
            /\ GotPayload(ev) =>
                /\ Cardinality(SendsFor(ev)) = 1
                /\ \A k \in SendsFor(ev) :
                       events[ev].msg.from \in Range(sendCalls[k].caption)

\* A media message flagged by msg.isViewOnce, its raw data saying otherwise,
\* was downloaded, sent once and delivered.
C3_Witness ==
    \E ev \in DOMAIN events :
        /\ events[ev].msg.hasMedia = "true"
        /\ events[ev].msg.isViewOnce = "true"
        /\ events[ev].msg._data.present
        /\ events[ev].msg._data.isViewOnce = "false"
        /\ Cardinality(DownloadsFor(ev)) = 1
        /\ GotPayload(ev)
        /\ Cardinality(SendsFor(ev)) = 1
        /\ events[ev].pc = "delivered"

\* C4: when the download returned null, or an object without data, the
\* invocation makes no delivery call and ends without an escaped exception.
C4_EmptyPayloadNoDelivery ==
    \A ev \in DOMAIN events :
        GotNothing(ev) =>
            /\ SendsFor(ev) = {}
            /\ ev \notin escaped
            /\ events[ev].pc = "failed"

\* One download returned null and another an object with empty data.
C4_Witness ==
    /\ \E ev \in DOMAIN events :
           events[ev].media.kind = "null" /\ events[ev].pc = "failed"
    /\ \E ev \in DOMAIN events :
           /\ events[ev].media.kind = "object"
           /\ events[ev].media.data = ""
           /\ events[ev].pc = "failed"

\* C5: when sendMessage throws for an invocation, no exception leaves it (it
\* ends as a logged failure) and every other invocation, also one started
\* afterwards, is processed normally.
C5_SendFailureContained ==
    \A ev \in DOMAIN events :
        events[ev].threw = "send" =>
            /\ ev \notin escaped
            /\ events[ev].pc = "failed"
            /\ Line("error", "Forwarding error:", ev) \in Range(console)
            /\ \A other \in DOMAIN events \ {ev} : ProcessedNormally(other)

\* A send failed; a message that arrived after the failure was logged has been
\* delivered.
C5_Witness ==
    \E ev, later \in DOMAIN events :
        /\ events[ev].threw = "send"
        /\ LinePos("error", "Forwarding error:", ev) > 0
        /\ LinePos("error", "Forwarding error:", ev)
               < LinePos("log", "View Once media detected from:", later)
        /\ events[later].pc = "delivered"

\* C6: when the download throws for an invocation, it logs the error and
\* returns: no delivery call for it, no escaped exception, and every other
\* invocation, also one started afterwards, is processed normally.
C6_DownloadFailureContained ==
    \A ev \in DOMAIN events :
        events[ev].threw = "download" =>
            /\ ev \notin escaped
            /\ events[ev].pc = "failed"
            /\ SendsFor(ev) = {}
            /\ Line("error", "Forwarding error:", ev) \in Range(console)
            /\ \A other \in DOMAIN events \ {ev} : ProcessedNormally(other)

\* A download threw; a message that arrived after the failure was logged has
\* been delivered.
C6_Witness ==
    \E ev, later \in DOMAIN events :
        /\ events[ev].threw = "download"
        /\ LinePos("error", "Forwarding error:", ev) > 0
        /\ LinePos("error", "Forwarding error:", ev)
               < LinePos("log", "View Once media detected from:", later)
        /\ events[later].pc = "delivered"

\* C7: the same flagged media message handed to the handler twice gets a
\* download call each time, and a delivery call for each download that
\* returned a non-empty payload: the second event is not recognised.
C7_NoDeduplication ==
    \A first, second \in DOMAIN events :
        (/\ first < second
         /\ events[first].msg = events[second].msg
         /\ events[first].msg.hasMedia = "true"
         /\ events[first].msg.isViewOnce = "true") =>
            /\ events[second].pc # "ignored"
            /\ Cardinality(DownloadsFor(first) \cup DownloadsFor(second)) = 2
            /\ (GotPayload(first) /\ GotPayload(second)) =>
                   Cardinality(SendsFor(first) \cup SendsFor(second)) = 2

\* The same message arrived twice and was delivered twice.
C7_Witness ==
    \E first, second \in DOMAIN events :
        /\ first < second
        /\ events[first].msg = events[second].msg
        /\ events[first].pc = "delivered"
        /\ events[second].pc = "delivered"
        /\ Len(downloadCalls) = 2
        /\ Len(sendCalls) = 2

\* C8: with OWNER_NUMBER missing, no client is created or initialised, no
\* handler is registered, no event is handled and no call is made; once the
\* module body has run the process has exited with status 1.
C8_MissingOwnerExits ==
    OWNER_NUMBER \in {Undefined, ""} =>
        /\ client = NoClient
        /\ events = <<>>
        /\ downloadCalls = <<>>
        /\ sendCalls = <<>>
        /\ proc # "running"
        /\ (proc = "exited") => exitCode = <<1>>

\* The process has exited with status 1 on an empty OWNER_NUMBER.
C8_Witness ==
    /\ OWNER_NUMBER = ""
    /\ proc = "exited"
    /\ exitCode = <<1>>
    /\ client = NoClient

\* C9: every sendMessage call goes to OWNER_NUMBER and carries the MIME type
\* and content of the payload downloaded by the invocation that makes it;
\* an invocation makes at most one such call.
C9_DeliveryToOwnerWithOwnPayload ==
    /\ \A k \in DOMAIN sendCalls :
           LET call == sendCalls[k] IN
               /\ call.to = OWNER_NUMBER
               /\ call.to = "owner@c.us"
               /\ GotPayload(call.ev)
               /\ call.media.mimetype = events[call.ev].media.mimetype
               /\ call.media.data = events[call.ev].media.data
    /\ \A ev \in DOMAIN events : Cardinality(SendsFor(ev)) <= 1

\* Two invocations were in flight together with different payloads; the one
\* whose download returned image/jpeg was delivered to the owner as image/jpeg.
C9_Witness ==
    \E ev, other \in DOMAIN events :
        /\ ev # other
        /\ events[ev].media.mimetype = "image/jpeg"
        /\ events[ev].pc = "delivered"
        /\ events[other].pc = "sending"
        /\ events[other].media.mimetype = "video/mp4"
        /\ \E k \in SendsFor(ev) :
               /\ sendCalls[k].to = "owner@c.us"
               /\ sendCalls[k].media.mimetype = "image/jpeg"
               /\ k > 1

\* C10: an invocation whose message is not an image or video, or carries no
\* affirmative view-once signal, makes no download call and no delivery call.
C10_OnlyEphemeralImageOrVideo ==
    \A ev \in DOMAIN events :
        (events[ev].msg.type \notin {"image", "video"} \/ NoSignal(events[ev].msg)) =>
            /\ DownloadsFor(ev) = {}
            /\ SendsFor(ev) = {}

\* At least one of the three signals of the message is affirmative.
AnyAffirmative(msg) ==
    \/ msg.isViewOnce = "true"
    \/ msg._data.present /\ msg._data.isViewOnce = "true"
    \/ msg._data.present /\ msg._data.viewOnce = "true"

\* C11: on a media message the handler goes on to the download exactly when
\* at least one of msg.isViewOnce, msg._data.isViewOnce, msg._data.viewOnce
\* is true; otherwise (also with msg._data absent) it ignores the message and
\* nothing is thrown or logged.
C11_PermissiveDetection ==
    \A ev \in DOMAIN events :
        events[ev].msg.hasMedia = "true" =>
            /\ (DownloadsFor(ev) # {}) <=> AnyAffirmative(events[ev].msg)
            /\ (events[ev].pc = "ignored") <=> ~AnyAffirmative(events[ev].msg)
            /\ ev \notin escaped
            /\ ~AnyAffirmative(events[ev].msg) =>
                   \A k \in DOMAIN console : console[k].ev # ev

\* A media message whose only affirmative signal is msg._data.viewOnce, the
\* structured flag saying false, went on to the download.
C11_Witness ==
    \E ev \in DOMAIN events :
        /\ events[ev].msg.hasMedia = "true"
        /\ events[ev].msg.isViewOnce = "false"
        /\ events[ev].msg._data.present
        /\ events[ev].msg._data.isViewOnce = Undefined
        /\ events[ev].msg._data.viewOnce = "true"
        /\ Cardinality(DownloadsFor(ev)) = 1

\* An invocation that has ended: nothing more is done for its event.
Ended(pc) == pc \in {"ignored", "failed", "delivered"}

\* C12: every event has at most one download call and at most one delivery
\* call, and once its invocation has ended (ignored, failed or delivered) no
\* further call is made for it and it stays ended: nothing is retried.
C12_NoRetry ==
    /\ [](\A ev \in DOMAIN events :
             /\ Cardinality(DownloadsFor(ev)) <= 1
             /\ Cardinality(SendsFor(ev)) <= 1)
    /\ [][\A ev \in DOMAIN events :
             Ended(events[ev].pc) =>
                 /\ events'[ev] = events[ev]
                 /\ \A k \in DOMAIN downloadCalls' :
                        downloadCalls'[k].ev = ev => k \in DOMAIN downloadCalls
                 /\ \A k \in DOMAIN sendCalls' :
                        sendCalls'[k].ev = ev => k \in DOMAIN sendCalls]_vars

\* One event failed at its send after one download and one send call, and a
\* second one failed on an empty download; each has a single download call.
C12_Witness ==
    \E ev, other \in DOMAIN events :
        /\ ev # other
        /\ events[ev].pc = "failed"
        /\ events[ev].threw = "send"
        /\ Cardinality(DownloadsFor(ev)) = 1
        /\ Cardinality(SendsFor(ev)) = 1
        /\ events[other].pc = "failed"
        /\ events[other].media.kind = "null"
        /\ Cardinality(DownloadsFor(other)) = 1

\* The state of the specification's per-message machine an invocation is in:
\* "downloading" is the whole in-flight phase, from the download call until
\* the send has settled.
Phase(pc) == IF pc \in {"downloading", "sending"} THEN "downloading" ELSE pc

\* C14: an invocation starts as ignored or downloading, moves only from
\* downloading to failed or delivered, and never leaves ignored, failed or
\* delivered; a delivery call exists for it only once its own download has
\* returned a payload with data.
C14_MessageStateMachine ==
    /\ [](\A ev \in DOMAIN events :
             /\ Phase(events[ev].pc) \in {"ignored", "downloading", "failed", "delivered"}
             /\ SendsFor(ev) # {} => GotPayload(ev)
             /\ events[ev].pc = "delivered" => SendsFor(ev) # {})
    /\ [][\A ev \in DOMAIN events' :
             IF ev \in DOMAIN events
             THEN \/ Phase(events'[ev].pc) = Phase(events[ev].pc)
                  \/ /\ Phase(events[ev].pc) = "downloading"
                     /\ Phase(events'[ev].pc) \in {"failed", "delivered"}
             ELSE events'[ev].pc \in {"ignored", "downloading"}]_vars

\* One invocation went through downloading to delivered while another went
\* through downloading to failed on a throwing download.
C14_Witness ==
    \E ev, other \in DOMAIN events :
        /\ events[ev].pc = "delivered"
        /\ SendsFor(ev) # {}
        /\ events[other].pc = "failed"
        /\ events[other].threw = "download"
        /\ SendsFor(other) = {}

Senders == {ident.from : ident \in Identities}

\* C15: whatever the interleaving, every invocation stands where its own
\* message and its own transport responses put it, its delivery call carries
\* the owner, its own payload and its own sender, and a step of one
\* invocation changes no other invocation.
C15_InterleavingIndependent ==
    /\ [](\A ev \in DOMAIN events :
             /\ ProcessedNormally(ev)
             /\ \A k \in SendsFor(ev) :
                    /\ sendCalls[k].to = OWNER_NUMBER
                    /\ sendCalls[k].media.mimetype = events[ev].media.mimetype
                    /\ sendCalls[k].media.data = events[ev].media.data
                    /\ Range(sendCalls[k].caption) \cap Senders = {events[ev].msg.from})
    /\ [][\A ev \in DOMAIN events :
             events'[ev] # events[ev] =>
                 \A other \in DOMAIN events \ {ev} : events'[other] = events[other]]_vars

\* Two messages of different senders were in flight together, the second
\* one's forward finished first, and both were delivered.
C15_Witness ==
    \E first, second \in DOMAIN events :
        /\ first < second
        /\ events[first].msg.from # events[second].msg.from
        /\ events[first].media # events[second].media
        /\ events[first].pc = "delivered"
        /\ events[second].pc = "delivered"
        /\ LinePos("log", "Forwarded successfully.", second)
               < LinePos("log", "Forwarded successfully.", first)

\* C16: handlers start in arrival order (so do their download calls), and
\* nothing serialises them afterwards: while two invocations both wait for
\* their download, the later one can make its delivery call with the earlier
\* one still waiting.
C16_NoCompletionOrder ==
    /\ \A k, l \in DOMAIN downloadCalls :
           k < l => downloadCalls[k].ev < downloadCalls[l].ev
    /\ \A a, b \in DOMAIN events :
           (/\ a < b
            /\ proc = "running"
            /\ events[a].pc = "downloading"
            /\ events[b].pc = "downloading") =>
               ENABLED (/\ Settle
                        /\ events'[b].pc = "sending"
                        /\ events'[a].pc = "downloading")

\* B's delivery call was made before A's although A arrived first.
C16_Witness ==
    /\ Len(sendCalls) = 2
    /\ Len(downloadCalls) = 2
    /\ downloadCalls[1].ev = 1
    /\ downloadCalls[2].ev = 2
    /\ sendCalls[1].ev = 2
    /\ sendCalls[2].ev = 1

\* A transport call of invocation ev returns (or throws) and ev is resumed.
Resumed(ev) == Settle /\ ev \in DOMAIN events /\ events'[ev] # events[ev]

Finished(ev) == ev \in DOMAIN events /\ Ended(events[ev].pc)

\* C17: let the transport calls of one event h never return.  If the calls of
\* every other event do return, every other event, whether it arrived before
\* or after h, reaches ignored, failed or delivered.
C17_HangStallsOnlyItself ==
    \A h \in 1..MaxEvents :
        (\A ev \in (1..MaxEvents) \ {h} : WF_vars(Resumed(ev))) =>
            \A ev \in (1..MaxEvents) \ {h} :
                [](ev \in DOMAIN events => <>Finished(ev))

\* The first event is still waiting for its download while a later one has
\* been delivered.
C17_Witness ==
    /\ Len(events) = 2
    /\ events[1].pc = "downloading"
    /\ events[2].pc = "delivered"

\* C18: a termination signal makes its handler call client.destroy() and wait
\* for it with the process still alive, and the process has exited with status
\* 0 only if a client.destroy() call has completed.
C18_DestroyBeforeExit ==
    /\ [](exitCode = <<0>> => client.destroyed /\ SignalsReceived > 0)
    /\ [][SignalsReceived' > SignalsReceived =>
             /\ client'.destroyPending = client.destroyPending + 1
             /\ ~client'.destroyed
             /\ proc' = "running"
             /\ exitCode' = <<>>]_vars

\* After SIGTERM the client was destroyed and the process exited with status 0.
C18_Witness ==
    /\ Logged(SignalLine("SIGTERM"))
    /\ client.destroyed
    /\ proc = "exited"
    /\ exitCode = <<0>>

\* An invocation waiting for its download or its send.
InFlight(ev) == events[ev].pc \in {"downloading", "sending"}

\* C19: while client.destroy() is pending, its return ends the process
\* whether or not a forward is in flight, and once the process has exited
\* nothing changes any more: a forward in flight then is never delivered.
C19_ShutdownDropsInFlight ==
    /\ [](\A ev \in DOMAIN events :
             (proc = "running" /\ client.destroyPending > 0 /\ InFlight(ev)) =>
                 ENABLED (DestroyResolve /\ proc' = "exited" /\ InFlight(ev)'))
    /\ [][proc = "exited" => UNCHANGED vars]_vars

\* The process exited with status 0 on a signal that arrived while a flagged
\* message was waiting for its download; no delivery call was made for it.
C19_Witness ==
    \E ev \in DOMAIN events :
        /\ proc = "exited"
        /\ exitCode = <<0>>
        /\ events[ev].pc = "downloading"
        /\ SendsFor(ev) = {}
        /\ LinePos("log", "View Once media detected from:", ev)
               < LinePos("log", "SIGTERM", 0)

\* The step prints an error line.
ErrorLogged ==
    /\ Len(console') = Len(console) + 1
    /\ console'[Len(console')].stream = "error"

\* C20: the process ends only on a missing OWNER_NUMBER or after a termination
\* signal; a step that reports an authentication failure, a disconnection, a
\* failed initialisation or a failed forward leaves a running process running
\* and starts nothing: no initialize(), download, send or destroy call.
C20_ErrorsOnlyLogged ==
    /\ [](proc = "exited" => (OWNER_NUMBER \in {Undefined, ""} \/ SignalsReceived > 0))
    /\ [][(proc = "running" /\ ErrorLogged) =>
             /\ proc' = "running"
             /\ exitCode' = <<>>
             /\ client'.initializeCalls = client.initializeCalls
             /\ client'.initialize # "pending" \/ client'.initialize = client.initialize
             /\ client'.destroyPending = client.destroyPending
             /\ client'.listeners = client.listeners
             /\ downloadCalls' = downloadCalls
             /\ sendCalls' = sendCalls
             /\ escaped' = escaped]_vars

\* Authentication failed, the client disconnected, initialisation failed and
\* a forward failed; the process is still running, with one initialize() call.
C20_Witness ==
    /\ Logged(Line("error", "Authentication failed:", 0))
    /\ Logged(Line("error", "Client disconnected:", 0))
    /\ Logged(Line("error", "Initialization failed:", 0))
    /\ \E ev \in DOMAIN events : events[ev].pc = "failed" /\ events[ev].threw = "send"
    /\ client.initialize = "rejected"
    /\ client.initializeCalls = 1
    /\ proc = "running"
    /\ exitCode = <<>>
    /\ SignalsReceived = 0

\* C13: in the heuristic variant no exception leaves the handler of an image
\* or video message, whether or not its body or identifier is present, so no
\* message ends the process or cuts short another message's handling.
C13_HeuristicFailuresContained ==
    /\ \A ev \in DOMAIN events :
           IsImageOrVideo(events[ev].msg) =>
               /\ ev \notin escaped
               /\ events[ev].pc # "rejected"
    /\ proc = "exited" => OWNER_NUMBER \in {Undefined, ""}

\* What follows a first rejection: the process has ended with status 1 while
\* an earlier message was still waiting for its download.
C13_ProcessLost ==
    ~(\E ev, other \in DOMAIN events :
          /\ other < ev
          /\ ev \in escaped
          /\ events[other].pc = "downloading"
          /\ proc = "exited"
          /\ exitCode = <<1>>)

====
